---- MODULE Spec2Model ----
(***************************************************************************)
(* Model of the Bjorn orchestrator (orchestrator.py) and of the idle       *)
(* network switch it calls (wifi_monitor.py).                              *)
(*                                                                         *)
(* One control thread runs Orchestrator.run: it walks the registry of      *)
(* loaded actions against the rows of the target table (process_alive_ips),*)
(* gates every (action, row) pair in execute_action, runs the action,      *)
(* stamps the outcome in the row's status cell and writes the table back.  *)
(*                                                                         *)
(* Time is counted in ticks; TicksPerSecond ticks make one second.         *)
(* datetime.now() is the tick count, strftime("%Y%m%d_%H%M%S") keeps whole *)
(* seconds only, strptime turns the seconds of a cell back into a time.    *)
(***************************************************************************)
EXTENDS Integers, Sequences, FiniteSets, TLC

(* ------------------------------ bounds --------------------------------- *)

\* number of rows of the target table (netkb)
NumRows == 2
\* the clock stops advancing at MaxNow ticks
MaxNow == 3
\* resolution of the clock: ticks per second
TicksPerSecond == 2
\* shared_data.failed_retry_delay, in seconds
failed_retry_delay == 1
\* shared_data.success_retry_delay, in seconds
success_retry_delay == 1
\* shared_data.scan_interval, in seconds
scan_interval == 1

(* --------------------------- the registry ------------------------------ *)

\* Python's None for b_parent
None == "None"

\* The content of shared_data.actions_file: the ordered records
\* {b_class, b_port, b_parent} that load_actions hands to load_action.
\*   X : port-bound, top level          Y : standalone child of X
\*   Z : port-bound child of X          S : standalone, top level
actions_config ==
    << [b_class |-> "X", b_port |-> 80, b_parent |-> None],
       [b_class |-> "Y", b_port |-> 0,  b_parent |-> "X"],
       [b_class |-> "Z", b_port |-> 81, b_parent |-> "X"],
       [b_class |-> "S", b_port |-> 0,  b_parent |-> None] >>

\* an action instance as load_action builds it
ActionInstance(cfg) ==
    [action_name |-> cfg.b_class, port |-> cfg.b_port, b_parent_action |-> cfg.b_parent]

RECURSIVE LoadInto(_, _)
\* load_action over the configuration (69-81): the instances that go to
\* self.standalone_actions (standalone = TRUE) or to self.actions (FALSE)
LoadInto(cfgs, standalone) ==
    IF cfgs = << >> THEN << >>
    ELSE LET inst == ActionInstance(Head(cfgs))
             rest == LoadInto(Tail(cfgs), standalone)
         IN  IF (inst.port = 0) = standalone THEN << inst >> \o rest ELSE rest

\* self.actions: the instances whose port is not 0
actions == LoadInto(actions_config, FALSE)
\* self.standalone_actions: the instances whose port is 0
standalone_actions == LoadInto(actions_config, TRUE)

ActionNames == { actions_config[i].b_class : i \in 1..Len(actions_config) }

\* the action record of a name
ActionOf(name) ==
    ActionInstance(CHOOSE c \in { actions_config[i] : i \in 1..Len(actions_config) } :
                       c.b_class = name)

(* ----------------------------- the table ------------------------------- *)

Rows == 1..NumRows
PortNumbers == {80, 81}

\* a status cell: '' (absent), 'success_<stamp>' or 'failed_<stamp>'. form says
\* how the text after the outcome reads: "ok" is <YYYYMMDD>_<HHMMSS>, "garbled"
\* has the two parts but strptime rejects them (ValueError), "short" lacks a
\* part, so that split('_')[2] does not exist (IndexError).
Absent == [tag |-> "absent", sec |-> 0, form |-> "ok"]
Cell(outcome, sec) == [tag |-> outcome, sec |-> sec, form |-> "ok"]
\* a cell the orchestrator did not write: 'failed_xx_yy', 'success_' ...
CorruptCell(outcome, form) == [tag |-> outcome, sec |-> 0, form |-> form]

\* datetime.now().strftime("%Y%m%d_%H%M%S"): the whole seconds of a time
strftime(t) == t \div TicksPerSecond
\* datetime.strptime(...): the time a stamp denotes
strptime(sec) == sec * TicksPerSecond
\* timedelta(seconds = s)
timedelta(s) == s * TicksPerSecond

\* one row of the table: Alive, Ports (row["Ports"].split(';')) and the status cells
EmptyRow == [Alive |-> FALSE, Ports |-> {}, status |-> [a \in ActionNames |-> Absent]]

(* ------------------------------ state ---------------------------------- *)

VARIABLES
    netkb,                    \* the persisted table (shared_data.read_data / write_data)
    current_data,             \* the snapshot process_alive_ips works on
    now,                      \* datetime.now(), in ticks
    pc,                       \* position of the control thread
    cycle,                    \* 1: first process_alive_ips of the iteration, 2: the one after the rescan
    ai, ri, ci,               \* loop positions: action, row, fast-path child
    semaphore,                \* value of self.semaphore
    any_action_executed,      \* local of process_alive_ips
    retry_success_actions,    \* shared_data.retry_success_actions
    orchestrator_should_exit, \* shared_data.orchestrator_should_exit
    bjornorch_status,         \* shared_data.bjornorch_status
    inflight,                 \* the action.execute call in progress, or NoRun
    log                       \* history: the dispatches of the current process_alive_ips call

vars == << netkb, current_data, now, pc, cycle, ai, ri, ci, semaphore,
           any_action_executed, retry_success_actions, orchestrator_should_exit,
           bjornorch_status, inflight, log >>

NoRun == [action |-> None, row |-> 0, start |-> 0]

(* ------------------------ execute_action: the gate --------------------- *)

\* the gate without the port test
PortOkDropped(action, row) == TRUE

\* line 129: str(action.port) in ports
PortOk(action, row) == action.port \in row.Ports

\* the gate without the test of the parent's cell
ParentOkDropped(action, row) == TRUE

\* lines 132-135: the parent's cell must contain 'success'
ParentOk(action, row) ==
    action.b_parent_action # None => row.status[action.b_parent_action].tag = "success"

\* the gate applying the success delay whatever retry_success_actions says
SuccessOkAlwaysRetry(action, row, t, retry) ==
    LET cell == row.status[action.action_name]
    IN  cell.tag = "success" =>
            ~ (t < strptime(cell.sec) + timedelta(success_retry_delay))

\* the gate with <= for < at line 143: still blocked at the very end of the delay
SuccessOkOffByOne(action, row, t, retry) ==
    LET cell == row.status[action.action_name]
    IN  cell.tag = "success" =>
            /\ retry
            /\ ~ (t <= strptime(cell.sec) + timedelta(success_retry_delay))

\* lines 137-149: a success cell blocks for ever, or until the success delay is
\* over; a ValueError of strptime is logged (148-149) and the test is passed
SuccessOk(action, row, t, retry) ==
    LET cell == row.status[action.action_name]
    IN  cell.tag = "success" =>
            /\ retry
            /\ cell.form = "ok" =>
                   ~ (t < strptime(cell.sec) + timedelta(success_retry_delay))

\* the gate without the failed delay: a failed cell never blocks
FailedOkDropped(action, row, t) == TRUE

\* the gate with <= for < at line 155: still blocked at the very end of the delay
FailedOkOffByOne(action, row, t) ==
    LET cell == row.status[action.action_name]
    IN  cell.tag = "failed" =>
            ~ (t <= strptime(cell.sec) + timedelta(failed_retry_delay))

\* lines 151-161: a failed cell blocks until the failed delay is over; a
\* ValueError of strptime is logged (160-161) and the test is passed
FailedOk(action, row, t) ==
    LET cell == row.status[action.action_name]
    IN  cell.tag = "failed" =>
            (cell.form = "ok" =>
                ~ (t < strptime(cell.sec) + timedelta(failed_retry_delay)))

\* lines 129-161: TRUE when execute_action goes on to call action.execute
Gate(action, row, t, retry) ==
    /\ PortOk(action, row)
    /\ ParentOk(action, row)
    /\ SuccessOk(action, row, t, retry)
    /\ FailedOk(action, row, t)

\* lines 142 and 154: split('_')[2] raises IndexError on a cell without the
\* second part of the stamp; 'except ValueError' does not catch it and it leaves
\* execute_action. Line 142 is reached for a success cell when retrying is on,
\* line 154 for a failed cell; both after the port and the parent tests.
GateRaises(action, row, t, retry) ==
    LET cell == row.status[action.action_name]
    IN  /\ PortOk(action, row)
        /\ ParentOk(action, row)
        /\ cell.form = "short"
        /\ \/ cell.tag = "success" /\ retry
           \/ cell.tag = "failed"

\* lines 166-179: the cell written for a result; anything but 'success', and an
\* exception, stamp 'failed'
Outcomes == {"success", "failed", "raise"}
\* the stamp without the except branch of lines 174-177: only a returned
\* 'failed' is stamped failed
StampedCellNoExcept(result, t) ==
    IF result = "failed" THEN Cell("failed", strftime(t)) ELSE Cell("success", strftime(t))
StampedCell(result, t) ==
    IF result = "success" THEN Cell("success", strftime(t)) ELSE Cell("failed", strftime(t))

\* row[action_key] = ... on the snapshot
WriteCell(table, r, name, cell) ==
    [table EXCEPT ![r].status[name] = cell]

(* ----------------------------- semaphore ------------------------------- *)

\* threading.Semaphore(10)
MaxConcurrentActions == 10
\* acquire blocks while the value is 0
SemCanAcquire(s) == s > 0
SemAcquire(s) == s - 1
\* a limiter whose slots are never given back
SemReleaseLeak(s) == s
\* leaving the with block gives the slot back
SemRelease(s) == s + 1

(* ------------------------- network_scanner.scan ------------------------ *)

\* What a scan leaves in the table: liveness and open ports of every row are
\* refreshed, the status cells are kept.
ScanResults(table) ==
    { t \in [Rows -> [Alive : BOOLEAN, Ports : SUBSET PortNumbers,
                      status : {table[r].status : r \in Rows}]] :
          \A r \in Rows : t[r].status = table[r].status }

(* ------------------------------- Init ---------------------------------- *)

Init ==
    /\ netkb = [r \in Rows |-> EmptyRow]
    /\ current_data = [r \in Rows |-> EmptyRow]
    /\ now = 0
    /\ pc = "first_scan"
    /\ cycle = 1
    /\ ai = 1 /\ ri = 1 /\ ci = 1
    /\ semaphore = MaxConcurrentActions
    /\ any_action_executed = FALSE
    /\ retry_success_actions \in BOOLEAN
    /\ orchestrator_should_exit = FALSE
    /\ bjornorch_status = "NetworkScanner"
    /\ inflight = NoRun
    /\ log = << >>

(* ------------------------ helpers of the actions ----------------------- *)

\* a dispatch: execute_action has passed the gate and calls action.execute
Dispatch(action, r, pass) ==
    /\ inflight' = [action |-> action.action_name, row |-> r, start |-> now]
    /\ log' = Append(log, [action |-> action.action_name, row |-> r,
                           pass |-> pass, result |-> "running", at |-> now])

\* a dispatcher that leaves the table file as it is
write_data_dropped(store, table) == store
\* shared_data.write_data(current_data), lines 172 and 178: the file holds the snapshot
write_data(store, table) == table

\* lines 166-179: the result is stamped in the cell and the table is written back
Complete(result) ==
    /\ current_data' = WriteCell(current_data, inflight.row, inflight.action,
                                 StampedCell(result, now))
    /\ netkb' = write_data(netkb, current_data')
    /\ inflight' = NoRun
    /\ log' = [log EXCEPT ![Len(log)].result = result]

\* the clock: time passes while an action or a scan runs
Tick ==
    /\ pc \in {"top_run", "fast_run", "sweep_run", "rescan"}
    /\ now < MaxNow
    /\ now' = now + 1
    /\ UNCHANGED << netkb, current_data, pc, cycle, ai, ri, ci, semaphore,
                    any_action_executed, retry_success_actions,
                    orchestrator_should_exit, bjornorch_status, inflight, log >>

(* ------------------ process_alive_ips: the top-level pass -------------- *)

\* line 90: the for over self.actions is exhausted; the child sweep starts
TopActionsDone ==
    /\ pc = "top" /\ ai > Len(actions)
    /\ pc' = "sweep" /\ ai' = 1 /\ ri' = 1
    /\ UNCHANGED << netkb, current_data, now, cycle, ci, semaphore,
                    any_action_executed, retry_success_actions,
                    orchestrator_should_exit, bjornorch_status, inflight, log >>

\* line 91: the for over the rows is exhausted; next action
TopRowsDone ==
    /\ pc = "top" /\ ai <= Len(actions) /\ ri > NumRows
    /\ ai' = ai + 1 /\ ri' = 1
    /\ UNCHANGED << netkb, current_data, now, pc, cycle, ci, semaphore,
                    any_action_executed, retry_success_actions,
                    orchestrator_should_exit, bjornorch_status, inflight, log >>

\* lines 92-93 and 97: a row that is not alive, or an action with a parent
TopSkip ==
    /\ pc = "top" /\ ai <= Len(actions) /\ ri <= NumRows
    /\ \/ ~ current_data[ri].Alive
       \/ actions[ai].b_parent_action # None
    /\ ri' = ri + 1
    /\ UNCHANGED << netkb, current_data, now, pc, cycle, ai, ci, semaphore,
                    any_action_executed, retry_success_actions,
                    orchestrator_should_exit, bjornorch_status, inflight, log >>

\* the state is about to run execute_action(actions[ai], row ri) in the top-level pass
TopCandidate ==
    /\ pc = "top" /\ ai <= Len(actions) /\ ri <= NumRows
    /\ current_data[ri].Alive
    /\ actions[ai].b_parent_action = None

\* lines 98-99: the slot is taken, the gate says no, the slot is released
TopIneligible ==
    /\ TopCandidate
    /\ SemCanAcquire(semaphore)
    /\ ~ GateRaises(actions[ai], current_data[ri], now, retry_success_actions)
    /\ ~ Gate(actions[ai], current_data[ri], now, retry_success_actions)
    /\ semaphore' = SemRelease(SemAcquire(semaphore))
    /\ ri' = ri + 1
    /\ UNCHANGED << netkb, current_data, now, pc, cycle, ai, ci,
                    any_action_executed, retry_success_actions,
                    orchestrator_should_exit, bjornorch_status, inflight, log >>

\* lines 98-99, 163-166: the slot is taken, the gate says yes, action.execute is called
TopDispatch ==
    /\ TopCandidate
    /\ SemCanAcquire(semaphore)
    /\ ~ GateRaises(actions[ai], current_data[ri], now, retry_success_actions)
    /\ Gate(actions[ai], current_data[ri], now, retry_success_actions)
    /\ semaphore' = SemAcquire(semaphore)
    /\ Dispatch(actions[ai], ri, "top")
    /\ pc' = "top_run"
    /\ UNCHANGED << netkb, current_data, now, cycle, ai, ri, ci,
                    any_action_executed, retry_success_actions,
                    orchestrator_should_exit, bjornorch_status >>

\* lines 166-179 then 99-104: action.execute returns or raises. On success the
\* fast path over the children starts inside the slot; otherwise the slot is
\* released and the next row is tried.
TopFinish ==
    /\ pc = "top_run"
    /\ \E result \in Outcomes :
          /\ Complete(result)
          /\ IF result = "success"
             THEN /\ any_action_executed' = TRUE
                  /\ bjornorch_status' = inflight.action
                  /\ pc' = "fast" /\ ci' = 1
                  /\ UNCHANGED << semaphore, ri >>
             ELSE /\ semaphore' = SemRelease(semaphore)
                  /\ pc' = "top" /\ ri' = ri + 1
                  /\ UNCHANGED << any_action_executed, bjornorch_status, ci >>
    /\ UNCHANGED << now, cycle, ai, retry_success_actions, orchestrator_should_exit >>

(* ---------------- process_alive_ips: the fast path (104-111) ----------- *)

\* the fast path without the break of line 111: the rows after the success are tried
FastChildrenDoneNoBreak ==
    /\ pc = "fast" /\ ci > Len(actions)
    /\ semaphore' = SemRelease(semaphore)
    /\ pc' = "top" /\ ri' = ri + 1
    /\ UNCHANGED << netkb, current_data, now, cycle, ai, ci,
                    any_action_executed, retry_success_actions,
                    orchestrator_should_exit, bjornorch_status, inflight, log >>

\* line 104 exhausted, then line 111: break out of the rows, the parent's slot is released
FastChildrenDone ==
    /\ pc = "fast" /\ ci > Len(actions)
    /\ semaphore' = SemRelease(semaphore)
    /\ pc' = "top" /\ ai' = ai + 1 /\ ri' = 1
    /\ UNCHANGED << netkb, current_data, now, cycle, ci,
                    any_action_executed, retry_success_actions,
                    orchestrator_should_exit, bjornorch_status, inflight, log >>

\* line 105: not a child of the action that has just succeeded
FastSkip ==
    /\ pc = "fast" /\ ci <= Len(actions)
    /\ actions[ci].b_parent_action # actions[ai].action_name
    /\ ci' = ci + 1
    /\ UNCHANGED << netkb, current_data, now, pc, cycle, ai, ri, semaphore,
                    any_action_executed, retry_success_actions,
                    orchestrator_should_exit, bjornorch_status, inflight, log >>

\* the state is about to run execute_action(actions[ci], row ri) in the fast path
FastCandidate ==
    /\ pc = "fast" /\ ci <= Len(actions)
    /\ actions[ci].b_parent_action = actions[ai].action_name

\* lines 106-107: a second slot is taken, the gate says no
FastIneligible ==
    /\ FastCandidate
    /\ SemCanAcquire(semaphore)
    /\ ~ GateRaises(actions[ci], current_data[ri], now, retry_success_actions)
    /\ ~ Gate(actions[ci], current_data[ri], now, retry_success_actions)
    /\ semaphore' = SemRelease(SemAcquire(semaphore))
    /\ ci' = ci + 1
    /\ UNCHANGED << netkb, current_data, now, pc, cycle, ai, ri,
                    any_action_executed, retry_success_actions,
                    orchestrator_should_exit, bjornorch_status, inflight, log >>

\* lines 106-107, 163-166: a second slot is taken, the child is run on the same row
FastDispatch ==
    /\ FastCandidate
    /\ SemCanAcquire(semaphore)
    /\ ~ GateRaises(actions[ci], current_data[ri], now, retry_success_actions)
    /\ Gate(actions[ci], current_data[ri], now, retry_success_actions)
    /\ semaphore' = SemAcquire(semaphore)
    /\ Dispatch(actions[ci], ri, "fast")
    /\ pc' = "fast_run"
    /\ UNCHANGED << netkb, current_data, now, cycle, ai, ri, ci,
                    any_action_executed, retry_success_actions,
                    orchestrator_should_exit, bjornorch_status >>

\* lines 166-179 then 107-111: the child returns or raises. On success both
\* loops are left (110, 111) and both slots released; otherwise the next child.
FastFinish ==
    /\ pc = "fast_run"
    /\ \E result \in Outcomes :
          /\ Complete(result)
          /\ IF result = "success"
             THEN /\ bjornorch_status' = inflight.action
                  /\ semaphore' = SemRelease(SemRelease(semaphore))
                  /\ pc' = "top" /\ ai' = ai + 1 /\ ri' = 1
                  /\ UNCHANGED ci
             ELSE /\ semaphore' = SemRelease(semaphore)
                  /\ pc' = "fast" /\ ci' = ci + 1
                  /\ UNCHANGED << bjornorch_status, ai, ri >>
    /\ UNCHANGED << now, cycle, any_action_executed, retry_success_actions,
                    orchestrator_should_exit >>

(* ---------------- process_alive_ips: the child sweep (113-123) --------- *)

\* line 113 exhausted, line 125: return any_action_executed
SweepActionsDone ==
    /\ pc = "sweep" /\ ai > Len(actions)
    /\ pc' = "done"
    /\ UNCHANGED << netkb, current_data, now, cycle, ai, ri, ci, semaphore,
                    any_action_executed, retry_success_actions,
                    orchestrator_should_exit, bjornorch_status, inflight, log >>

\* line 114 false (no parent), or line 116 exhausted: next action
SweepNextAction ==
    /\ pc = "sweep" /\ ai <= Len(actions)
    /\ \/ actions[ai].b_parent_action = None
       \/ ri > NumRows
    /\ ai' = ai + 1 /\ ri' = 1
    /\ UNCHANGED << netkb, current_data, now, pc, cycle, ci, semaphore,
                    any_action_executed, retry_success_actions,
                    orchestrator_should_exit, bjornorch_status, inflight, log >>

\* the state is about to run execute_action(actions[ai], row ri) in the child
\* sweep; lines 116-119 do not look at row["Alive"]
SweepCandidate ==
    /\ pc = "sweep" /\ ai <= Len(actions) /\ ri <= NumRows
    /\ actions[ai].b_parent_action # None

\* lines 118-119: the slot is taken, the gate says no, the slot is released
SweepIneligible ==
    /\ SweepCandidate
    /\ SemCanAcquire(semaphore)
    /\ ~ GateRaises(actions[ai], current_data[ri], now, retry_success_actions)
    /\ ~ Gate(actions[ai], current_data[ri], now, retry_success_actions)
    /\ semaphore' = SemRelease(SemAcquire(semaphore))
    /\ ri' = ri + 1
    /\ UNCHANGED << netkb, current_data, now, pc, cycle, ai, ci,
                    any_action_executed, retry_success_actions,
                    orchestrator_should_exit, bjornorch_status, inflight, log >>

\* lines 118-119, 163-166: the slot is taken, the child is run
SweepDispatch ==
    /\ SweepCandidate
    /\ SemCanAcquire(semaphore)
    /\ ~ GateRaises(actions[ai], current_data[ri], now, retry_success_actions)
    /\ Gate(actions[ai], current_data[ri], now, retry_success_actions)
    /\ semaphore' = SemAcquire(semaphore)
    /\ Dispatch(actions[ai], ri, "sweep")
    /\ pc' = "sweep_run"
    /\ UNCHANGED << netkb, current_data, now, cycle, ai, ri, ci,
                    any_action_executed, retry_success_actions,
                    orchestrator_should_exit, bjornorch_status >>

\* lines 166-179 then 119-123: on success the rows are left (123), otherwise
\* the next row is tried
SweepFinish ==
    /\ pc = "sweep_run"
    /\ \E result \in Outcomes :
          /\ Complete(result)
          /\ semaphore' = SemRelease(semaphore)
          /\ pc' = "sweep"
          /\ IF result = "success"
             THEN /\ any_action_executed' = TRUE
                  /\ bjornorch_status' = inflight.action
                  /\ ai' = ai + 1 /\ ri' = 1
             ELSE /\ ri' = ri + 1
                  /\ UNCHANGED << any_action_executed, bjornorch_status, ai >>
    /\ UNCHANGED << now, cycle, ci, retry_success_actions, orchestrator_should_exit >>

(* --------------------------- Orchestrator.run -------------------------- *)

\* process_alive_ips(current_data) is entered: lines 87-90
EnterCycle(k) ==
    /\ cycle' = k
    /\ any_action_executed' = FALSE
    /\ pc' = "top" /\ ai' = 1 /\ ri' = 1
    /\ log' = << >>

\* lines 183-186: the first scan
FirstScan ==
    /\ pc = "first_scan"
    /\ netkb' \in ScanResults(netkb)
    /\ pc' = "loop"
    /\ UNCHANGED << current_data, now, cycle, ai, ri, ci, semaphore,
                    any_action_executed, retry_success_actions,
                    orchestrator_should_exit, bjornorch_status, inflight, log >>

\* another thread sets shared_data.orchestrator_should_exit; the flag is read
\* at line 188 only
RequestExit ==
    /\ pc = "loop" /\ ~ orchestrator_should_exit
    /\ orchestrator_should_exit' = TRUE
    /\ UNCHANGED << netkb, current_data, now, pc, cycle, ai, ri, ci, semaphore,
                    any_action_executed, retry_success_actions,
                    bjornorch_status, inflight, log >>

\* line 188: the flag is set, run returns
LoopExit ==
    /\ pc = "loop" /\ orchestrator_should_exit
    /\ pc' = "exited"
    /\ UNCHANGED << netkb, current_data, now, cycle, ai, ri, ci, semaphore,
                    any_action_executed, retry_success_actions,
                    orchestrator_should_exit, bjornorch_status, inflight, log >>

\* lines 188-190: the table is read and the first cycle of the iteration starts
LoopIterate ==
    /\ pc = "loop" /\ ~ orchestrator_should_exit
    /\ current_data' = netkb
    /\ EnterCycle(1)
    /\ UNCHANGED << netkb, now, ci, semaphore, retry_success_actions,
                    orchestrator_should_exit, bjornorch_status, inflight >>

\* lines 192, 214-215: the first cycle executed something; next iteration at once
CycleExecuted ==
    /\ pc = "done" /\ cycle = 1 /\ any_action_executed
    /\ pc' = "loop"
    /\ UNCHANGED << netkb, current_data, now, cycle, ai, ri, ci, semaphore,
                    any_action_executed, retry_success_actions,
                    orchestrator_should_exit, bjornorch_status, inflight, log >>

\* lines 192-199: the first cycle executed nothing; the scanner is started
CycleIdle ==
    /\ pc = "done" /\ cycle = 1 /\ ~ any_action_executed
    /\ bjornorch_status' = "NetworkScanner"
    /\ pc' = "rescan"
    /\ UNCHANGED << netkb, current_data, now, cycle, ai, ri, ci, semaphore,
                    any_action_executed, retry_success_actions,
                    orchestrator_should_exit, inflight, log >>

\* lines 199-201: the scan returns, the table is read, the retry cycle starts
Rescan ==
    /\ pc = "rescan"
    /\ netkb' \in ScanResults(netkb)
    /\ current_data' = netkb'
    /\ EnterCycle(2)
    /\ UNCHANGED << now, ci, semaphore, retry_success_actions,
                    orchestrator_should_exit, bjornorch_status, inflight >>

\* lines 205, 213: the retry cycle executed something; line 213 sleeps all the same
RetryExecuted ==
    /\ pc = "done" /\ cycle = 2 /\ any_action_executed
    /\ pc' = "sleep"
    /\ UNCHANGED << netkb, current_data, now, cycle, ai, ri, ci, semaphore,
                    any_action_executed, retry_success_actions,
                    orchestrator_should_exit, bjornorch_status, inflight, log >>

\* lines 205-208: still nothing executed; wifi_monitor.switch_network_if_idle is called
RetryIdle ==
    /\ pc = "done" /\ cycle = 2 /\ ~ any_action_executed
    /\ bjornorch_status' = "idle_action"
    /\ pc' = "wifi"
    /\ UNCHANGED << netkb, current_data, now, cycle, ai, ri, ci, semaphore,
                    any_action_executed, retry_success_actions,
                    orchestrator_should_exit, inflight, log >>

\* time.sleep(seconds), the clock stopping at MaxNow
AfterSleep(t, seconds) ==
    IF t + timedelta(seconds) > MaxNow THEN MaxNow ELSE t + timedelta(seconds)

\* line 213: time.sleep(scan_interval), then the loop condition again
Sleep ==
    /\ pc = "sleep"
    /\ now' = AfterSleep(now, scan_interval)
    /\ pc' = "loop"
    /\ UNCHANGED << netkb, current_data, cycle, ai, ri, ci, semaphore,
                    any_action_executed, retry_success_actions,
                    orchestrator_should_exit, bjornorch_status, inflight, log >>

(* ----------------- wifi_monitor.switch_network_if_idle ----------------- *)

\* wifi_monitor.py line 33
CHECK_INTERVAL == 60

\* wifi_monitor.py lines 83-96: one turn of the while True loop. With
\* bjornorch_status at "idle_action" the networks are scanned and a known one
\* is joined; the break of line 96 leaves the for over the credentials only.
WifiPoll ==
    /\ pc = "wifi"
    /\ pc' = "wifi_sleep"
    /\ UNCHANGED << netkb, current_data, now, cycle, ai, ri, ci, semaphore,
                    any_action_executed, retry_success_actions,
                    orchestrator_should_exit, bjornorch_status, inflight, log >>

\* wifi_monitor.py line 99, then line 83 again: nothing leaves the while, so
\* the call never returns to line 213 of orchestrator.py
WifiSleep ==
    /\ pc = "wifi_sleep"
    /\ now' = AfterSleep(now, CHECK_INTERVAL)
    /\ pc' = "wifi"
    /\ UNCHANGED << netkb, current_data, cycle, ai, ri, ci, semaphore,
                    any_action_executed, retry_success_actions,
                    orchestrator_should_exit, bjornorch_status, inflight, log >>

(* ------------------- a table with a damaged status cell ---------------- *)

\* The table file may hold a cell the orchestrator did not write. The damaged
\* tables considered: one cell of the first row, of a port-bound action, reads
\* success or failed followed by a stamp that is garbled or short.
CorruptForms == {"garbled", "short"}
CorruptTables ==
    { [r \in Rows |->
          IF r = 1
          THEN [EmptyRow EXCEPT !.status[a] = CorruptCell(outcome, form)]
          ELSE EmptyRow] :
      a \in { actions[i].action_name : i \in 1..Len(actions) },
      outcome \in {"success", "failed"},
      form \in CorruptForms }

\* the state after construction when the table file holds a damaged cell
InitCorrupt ==
    /\ netkb \in CorruptTables
    /\ current_data = [r \in Rows |-> EmptyRow]
    /\ now = 0
    /\ pc = "first_scan"
    /\ cycle = 1
    /\ ai = 1 /\ ri = 1 /\ ci = 1
    /\ semaphore = MaxConcurrentActions
    /\ any_action_executed = FALSE
    /\ retry_success_actions \in BOOLEAN
    /\ orchestrator_should_exit = FALSE
    /\ bjornorch_status = "NetworkScanner"
    /\ inflight = NoRun
    /\ log = << >>

\* lines 142, 154: the IndexError leaves execute_action, the with blocks (one
\* in the passes, two in the fast path) give their slots back, and nothing in
\* process_alive_ips or run catches it: the control thread ends
GateCrash ==
    /\ \/ TopCandidate /\ GateRaises(actions[ai], current_data[ri], now, retry_success_actions)
       \/ FastCandidate /\ GateRaises(actions[ci], current_data[ri], now, retry_success_actions)
       \/ SweepCandidate /\ GateRaises(actions[ai], current_data[ri], now, retry_success_actions)
    /\ SemCanAcquire(semaphore)
    /\ semaphore' = IF pc = "fast"
                    THEN SemRelease(SemRelease(SemAcquire(semaphore)))
                    ELSE SemRelease(SemAcquire(semaphore))
    /\ pc' = "crashed"
    /\ UNCHANGED << netkb, current_data, now, cycle, ai, ri, ci,
                    any_action_executed, retry_success_actions,
                    orchestrator_should_exit, bjornorch_status, inflight, log >>

(* ------------------------------ the system ----------------------------- *)

Next ==
    \/ Tick
    \/ TopActionsDone \/ TopRowsDone \/ TopSkip \/ TopIneligible \/ TopDispatch \/ TopFinish
    \/ FastChildrenDone \/ FastSkip \/ FastIneligible \/ FastDispatch \/ FastFinish
    \/ SweepActionsDone \/ SweepNextAction \/ SweepIneligible \/ SweepDispatch \/ SweepFinish
    \/ FirstScan \/ RequestExit \/ LoopExit \/ LoopIterate
    \/ CycleExecuted \/ CycleIdle \/ Rescan \/ RetryExecuted \/ RetryIdle \/ Sleep
    \/ WifiPoll \/ WifiSleep

Spec == Init /\ [][Next]_vars

\* the control thread keeps running
FairSpec == Spec /\ WF_vars(Next)

\* the system started on a table with a damaged cell
NextCorrupt == Next \/ GateCrash
SpecCorrupt == InitCorrupt /\ [][NextCorrupt]_vars

TypeOK ==
    /\ now \in 0..MaxNow
    /\ semaphore \in 0..MaxConcurrentActions
    /\ ai \in 1..(Len(actions) + 1) /\ ri \in 1..(NumRows + 1) /\ ci \in 1..(Len(actions) + 1)
    /\ cycle \in {1, 2}

(* ------------------------ notions used by the claims ------------------- *)

NoCand == [action |-> None, row |-> 0]

\* the (action, row) pair the next step hands to execute_action, if any
Candidate ==
    IF TopCandidate THEN [action |-> actions[ai].action_name, row |-> ri]
    ELSE IF FastCandidate THEN [action |-> actions[ci].action_name, row |-> ri]
    ELSE IF SweepCandidate THEN [action |-> actions[ai].action_name, row |-> ri]
    ELSE NoCand

\* a call of action.execute is in progress
Running == inflight # NoRun

\* this step dispatches action a against row r
DispatchStep(a, r) ==
    /\ inflight = NoRun
    /\ inflight' # NoRun /\ inflight'.action = a /\ inflight'.row = r

\* the number of with-blocks on self.semaphore the control thread is inside
Holders ==
    CASE pc = "top_run" -> 1
      [] pc = "fast" -> 1
      [] pc = "fast_run" -> 2
      [] pc = "sweep_run" -> 1
      [] OTHER -> 0

\* the time from which a failed cell no longer blocks
FailedExpiry(cell) == strptime(cell.sec) + timedelta(failed_retry_delay)

\* every loaded action, port-bound and standalone
LoadedActions ==
    { actions[i] : i \in 1..Len(actions) } \cup
    { standalone_actions[i] : i \in 1..Len(standalone_actions) }

\* the port rule of the specification: standalone, or the port is open on the row
PortRule(action, row) == action.port = 0 \/ action.port \in row.Ports

AliveRows == { r \in Rows : current_data[r].Alive }

(* ------------------------------- claims -------------------------------- *)

\* C1: an action with a parent is run against a row only if, at the moment of
\* the dispatch, the row's cell of the parent reads success; in the fast path
\* and in the child sweep alike.
C1_ChildNeedsParentSuccess ==
    Running =>
        LET action == ActionOf(inflight.action)
        IN  action.b_parent_action # None =>
                current_data[inflight.row].status[action.b_parent_action].tag = "success"

\* C1 witness: a child is running, dispatched by the child sweep
C1_Witness ==
    /\ Running
    /\ ActionOf(inflight.action).b_parent_action # None
    /\ log[Len(log)].pass = "sweep"

\* C2: with retry_success_actions off, a cell that reads success stays as it
\* is and its action is not dispatched against its row by any later step.
C2_SuccessIsFinal ==
    [][ \A r \in Rows, a \in ActionNames :
            (~ retry_success_actions /\ current_data[r].status[a].tag = "success")
                => /\ current_data'[r].status[a] = current_data[r].status[a]
                   /\ ~ DispatchStep(a, r) ]_vars

\* C2 witness: retrying is off and execute_action is about to be called, in a
\* later cycle, for a pair whose cell reads success
C2_Witness ==
    /\ ~ retry_success_actions
    /\ Candidate # NoCand
    /\ current_data[Candidate.row].status[Candidate.action].tag = "success"
    /\ log = << >>

\* C3: a pair whose cell reads failed@Time is not dispatched while
\* now < Time + failed_retry_delay, and the first call of execute_action for it
\* at now >= Time + failed_retry_delay, port and parent tests passing,
\* dispatches it.
C3_FailedCooldown ==
    [][ /\ \A r \in Rows, a \in ActionNames :
              (DispatchStep(a, r) /\ current_data[r].status[a].tag = "failed")
                  => now >= FailedExpiry(current_data[r].status[a])
        /\ LET c == Candidate
           IN  (/\ c # NoCand
                /\ current_data[c.row].status[c.action].tag = "failed"
                /\ now >= FailedExpiry(current_data[c.row].status[c.action])
                /\ PortOk(ActionOf(c.action), current_data[c.row])
                /\ ParentOk(ActionOf(c.action), current_data[c.row]))
                   => DispatchStep(c.action, c.row) ]_vars

\* C3 witness: an action is running again on a row whose cell for it reads failed
C3_Witness ==
    /\ Running
    /\ current_data[inflight.row].status[inflight.action].tag = "failed"
    /\ inflight.start = FailedExpiry(current_data[inflight.row].status[inflight.action])

\* C4: a port-bound action is run against a row only if the row's open ports
\* contain the action's port, in every pass.
C4_PortBoundNeedsOpenPort ==
    Running =>
        LET action == ActionOf(inflight.action)
        IN  action.port # 0 => action.port \in current_data[inflight.row].Ports

\* C4 witness: a port-bound child is running in the fast path, on a row where
\* its port is open
C4_Witness ==
    /\ Running
    /\ ActionOf(inflight.action).port # 0
    /\ log[Len(log)].pass = "fast"

\* C5: the number of invocations inside a slot of the limiter is the number of
\* slots taken from it, and never more than MaxConcurrentActions; also while a
\* fast-path child runs inside its parent's slot.
C5_LimiterBound ==
    /\ Holders <= MaxConcurrentActions
    /\ semaphore = MaxConcurrentActions - Holders

\* C5 witness: a fast-path child runs inside its parent's slot
C5_Witness == pc = "fast_run" /\ Holders = 2

\* C6: a cycle over a table with no alive row dispatches nothing and returns
\* "no execution".
C6_NoAliveRowNoDispatch ==
    (pc = "done" /\ AliveRows = {}) => (log = << >> /\ ~ any_action_executed)

\* C7: when a top-level action has succeeded on a row in this cycle, every child
\* of it that passes the port rule on that row has been dispatched against the
\* row by the end of the cycle (its cell is no longer absent).
C7_ChildrenFollowParent ==
    pc = "done" =>
        \A i \in 1..Len(log) :
            (log[i].pass = "top" /\ log[i].result = "success") =>
                \A child \in LoadedActions :
                    (/\ child.b_parent_action = log[i].action
                     /\ PortRule(child, current_data[log[i].row]))
                        => current_data[log[i].row].status[child.action_name] # Absent

\* C8: at the end of a cycle over a table with an alive row, no top-level
\* standalone action is left with an absent cell on the first alive row.
C8_StandaloneDispatched ==
    (pc = "done" /\ AliveRows # {}) =>
        LET first == CHOOSE r \in AliveRows : \A q \in AliveRows : r <= q
        IN  \A action \in LoadedActions :
                (action.port = 0 /\ action.b_parent_action = None)
                    => current_data[first].status[action.action_name] # Absent

\* C9: once the idle remediation is called, it returns and the loop reaches
\* the sleep of the scan interval.
C9_RemediationReturns == (pc = "wifi") ~> (pc = "sleep")

\* C10: the value a cycle returns is true exactly when the cycle dispatched
\* at least one (row, action) pair.
C10_ResultIffDispatched ==
    pc = "done" => (any_action_executed <=> log # << >>)

\* C11: when action.execute raises, the pair's cell is stamped failed at the
\* current time, the table is written back, execute_action returns False (the
\* cycle result is left as it is) and the walker goes on with the next
\* candidate of the loop it is in.
C11_RaiseIsFailed ==
    [][ (Running /\ ~ Running' /\ log'[Len(log')].result = "raise")
            => /\ current_data'[inflight.row].status[inflight.action]
                      = Cell("failed", strftime(now))
               /\ netkb' = current_data'
               /\ any_action_executed' = any_action_executed
               /\ pc = "top_run" => (pc' = "top" /\ ai' = ai /\ ri' = ri + 1)
               /\ pc = "fast_run" => (pc' = "fast" /\ ai' = ai /\ ri' = ri /\ ci' = ci + 1)
               /\ pc = "sweep_run" => (pc' = "sweep" /\ ai' = ai /\ ri' = ri + 1) ]_vars

\* C11 witness: an action has just raised in the fast path and the walker is
\* back in the loop over the children
C11_Witness ==
    /\ ~ Running /\ pc = "fast"
    /\ log # << >> /\ log[Len(log)].result = "raise" /\ log[Len(log)].pass = "fast"
    /\ current_data[log[Len(log)].row].status[log[Len(log)].action].tag = "failed"

\* a cell whose stamp execute_action has to parse and cannot
StampUnreadable(cell, retry) ==
    /\ cell.form # "ok"
    /\ \/ cell.tag = "failed"
       \/ cell.tag = "success" /\ retry

\* C12: when execute_action is called for a pair whose cell is tagged failed,
\* or success with retrying on, and the stamp is corrupted, the action is not
\* dispatched, the table is left as it is and no error leaves the cycle.
C12_CorruptStampSkips ==
    [][ LET c == Candidate
        IN  (/\ c # NoCand
             /\ StampUnreadable(current_data[c.row].status[c.action],
                                retry_success_actions))
                => /\ ~ DispatchStep(c.action, c.row)
                   /\ current_data' = current_data
                   /\ pc' # "crashed" ]_vars

\* the positions of the control thread inside process_alive_ips
CyclePcs == {"top", "top_run", "fast", "fast_run", "sweep", "sweep_run", "done"}

\* C13: all through a cycle the persisted table is the snapshot: every
\* outcome is written back with its cell, before the next call of
\* execute_action; only the result of the call in progress is in neither.
C13_PersistedAfterEveryAttempt ==
    pc \in CyclePcs => netkb = current_data

\* C13 witness: an action has been run, its cell is in the persisted table,
\* and execute_action is about to be called for the next candidate
C13_Witness ==
    /\ Candidate # NoCand
    /\ log # << >> /\ log[Len(log)].result \in {"failed", "raise"}
    /\ netkb[log[Len(log)].row].status[log[Len(log)].action].tag = "failed"

\* the time from which a success cell no longer blocks when retrying is on
SuccessExpiry(cell) == strptime(cell.sec) + timedelta(success_retry_delay)

\* C14: with retry_success_actions on, a pair whose cell reads success@T0 is
\* not dispatched while now < T0 + success_retry_delay, and a call of
\* execute_action for it at now >= T0 + success_retry_delay, port and parent
\* tests passing, dispatches it.
C14_SuccessCooldown ==
    [][ retry_success_actions =>
          /\ \A r \in Rows, a \in ActionNames :
                (DispatchStep(a, r) /\ current_data[r].status[a].tag = "success")
                    => now >= SuccessExpiry(current_data[r].status[a])
          /\ LET c == Candidate
             IN  (/\ c # NoCand
                  /\ current_data[c.row].status[c.action].tag = "success"
                  /\ now >= SuccessExpiry(current_data[c.row].status[c.action])
                  /\ PortOk(ActionOf(c.action), current_data[c.row])
                  /\ ParentOk(ActionOf(c.action), current_data[c.row]))
                     => DispatchStep(c.action, c.row) ]_vars

\* C14 witness: retrying is on and an action is running again on a row whose
\* cell for it reads success, dispatched at the very end of the delay
C14_Witness ==
    /\ retry_success_actions
    /\ Running
    /\ current_data[inflight.row].status[inflight.action].tag = "success"
    /\ inflight.start = SuccessExpiry(current_data[inflight.row].status[inflight.action])

\* C15: the loop is at the sleep of line 213 only when the first cycle and the
\* retry cycle of the iteration both reported no execution.
C15_SleepOnlyWhenIdle ==
    pc = "sleep" => (cycle = 2 /\ ~ any_action_executed)

\* C16: in the top-level pass an action is tried on the rows in table order,
\* and once it has been dispatched against a row and has succeeded there, it
\* is dispatched against no later row in that pass.
C16_OneSuccessPerTopAction ==
    \A i, j \in 1..Len(log) :
        (/\ i < j
         /\ log[i].pass = "top" /\ log[j].pass = "top"
         /\ log[i].action = log[j].action)
            => /\ log[i].row < log[j].row
               /\ log[i].result # "success"

\* C16 witness: the top-level pass is over, an action succeeded on the first
\* row, and the second row, alive and passing the gate for the same action,
\* was left alone
C16_Witness ==
    /\ pc = "sweep"
    /\ \E i \in 1..Len(log) :
          /\ log[i].pass = "top" /\ log[i].result = "success" /\ log[i].row = 1
          /\ current_data[2].Alive
          /\ Gate(ActionOf(log[i].action), current_data[2], now, retry_success_actions)
          /\ \A j \in 1..Len(log) : ~ (log[j].row = 2 /\ log[j].action = log[i].action)

\* C17: in the child sweep an action with a parent is dispatched against one
\* row at most, whether the attempt succeeds or fails.
C17_OneAttemptPerSweepChild ==
    \A i, j \in 1..Len(log) :
        (/\ log[i].pass = "sweep" /\ log[j].pass = "sweep"
         /\ log[i].action = log[j].action)
            => i = j

\* the loop is between two cycles, retrying is off, and row r, alive, has the
\* parent of the child succeeded, the child's port rule passed and its cell absent
ChildPending(child, r) ==
    /\ pc = "loop" /\ ~ orchestrator_should_exit
    /\ ~ retry_success_actions
    /\ netkb[r].Alive
    /\ netkb[r].status[child.b_parent_action].tag = "success"
    /\ PortRule(child, netkb[r])
    /\ netkb[r].status[child.action_name] = Absent

\* the child is running against row r
ChildDispatched(child, r) ==
    Running /\ inflight.action = child.action_name /\ inflight.row = r

\* the premises of C18 are gone: shutdown is requested, or a scan has found
\* the row dead or the port closed
PendingOver(child, r) ==
    \/ orchestrator_should_exit
    \/ ~ netkb[r].Alive
    \/ ~ PortRule(child, netkb[r])

\* C18: with retrying off, a child whose parent succeeded on an alive row in an
\* earlier cycle, whose port rule passes there and whose cell is absent, is
\* eventually dispatched against that row, unless shutdown is requested or
\* the scanner changes the row.
C18_PendingChildDispatched ==
    \A r \in Rows : \A child \in LoadedActions :
        child.b_parent_action # None =>
            (ChildPending(child, r) ~> (ChildDispatched(child, r) \/ PendingOver(child, r)))

\* the limiter capacities C19 ranges over: from one slot up to the constructed one
Capacities == 1..MaxConcurrentActions

\* the control thread is about to enter a with-block on self.semaphore
AcquirePending == TopCandidate \/ FastCandidate \/ SweepCandidate

\* the slots of the limiter that are taken
SlotsHeld == MaxConcurrentActions - semaphore

CycleStart == log[1].at

\* the shorter of the two delays, in ticks
ShortestDelay ==
    IF failed_retry_delay <= success_retry_delay
    THEN timedelta(failed_retry_delay)
    ELSE timedelta(success_retry_delay)

\* no (row, action) pair has been dispatched twice in the cycle of the log
NoPairTwice ==
    \A i, j \in 1..Len(log) :
        (log[i].action = log[j].action /\ log[i].row = log[j].row) => i = j

\* the sweep of the cycle has gone through every row for every child
SweepWalkedAllRows ==
    \A j \in 1..Len(log) : log[j].pass = "sweep" => log[j].result # "success"

\* C20 as stated: a cycle that has taken less time than both delays has
\* dispatched no (row, action) pair twice.
C20_NoPairTwiceInCycle ==
    (/\ pc = "done" /\ log # << >>
     /\ now - CycleStart < ShortestDelay)
        => NoPairTwice

\* C20 amended: a cycle that ends before both delays are over, counted from the
\* beginning of the clock second in which it started, has dispatched no
\* (row, action) pair twice.
C20_NoPairTwiceWithinStampedDelay ==
    (/\ pc = "done" /\ log # << >>
     /\ now < strptime(strftime(CycleStart)) + ShortestDelay)
        => NoPairTwice

\* C20 witness: such a cycle in which time has passed, a fast-path child has
\* failed, and the sweep has gone through every row for every child
C20_Witness ==
    /\ pc = "done" /\ log # << >>
    /\ now < strptime(strftime(CycleStart)) + ShortestDelay
    /\ now > CycleStart
    /\ \E i \in 1..Len(log) : log[i].pass = "fast" /\ log[i].result = "failed"
    /\ SweepWalkedAllRows

====
